---- MODULE Spec2Model ----
(***************************************************************************)
(* Calgary property assessment web app (src/app.py).                       *)
(*                                                                         *)
(* The module-level load (lines 34-65) is modelled statement by statement, *)
(* with the catch-all handler; the three Flask handlers (index,            *)
(* calgary_overview, show_map) are modelled as request actions that read   *)
(* the process-wide globals and leave their result in `response`.          *)
(*                                                                         *)
(* A GeoDataFrame is [type, crs, rows]; a geometry is [shape, coords]      *)
(* where coords names the reference system its coordinates are written in. *)
(* Columns the handlers never read for logic (address, class description)  *)
(* are left out of the rows.                                               *)
(***************************************************************************)
EXTENDS Integers, Sequences, FiniteSets, TLC

VARIABLES
    pc,                \* position of the module-level code
    properties_gdf,    \* global, line 35
    communities_gdf,   \* global, line 36
    sector_gdf,        \* global, line 37
    calgary_center,    \* global, line 58 / 65
    response           \* result of the last request served

vars == <<pc, properties_gdf, communities_gdf, sector_gdf,
          calgary_center, response>>

globals == <<properties_gdf, communities_gdf, sector_gdf, calgary_center>>

----------------------------------------------------------------------------
(* Bounds of the model *)

MaxProps == 2
MaxComms == 2

----------------------------------------------------------------------------
(* Python values *)

None == [type |-> "NoneType"]
Unbound == [type |-> "unbound"]
NaN == [type |-> "nan"]
Str(chars) == [type |-> "str", chars |-> chars]
Num(n) == [type |-> "number", v |-> n]

WGS84 == "EPSG:4326"
WebMercator == "EPSG:3857"
NoCrs == "None"
CrsValues == {WGS84, WebMercator, NoCrs}

GeoDataFrame(crs, rows) == [type |-> "GeoDataFrame", crs |-> crs, rows |-> rows]

IsFrame(v) == v.type = "GeoDataFrame"

Geometry(shape, crs) == [shape |-> shape, coords |-> crs]

ValueColumns == <<"assessed_value", "re_assessed_value",
                  "nr_assessed_value", "fl_assessed_value">>

\* the non-empty sequences over S of length at most n
SeqsUpTo(S, n) == UNION {[1..k -> S] : k \in 1..n}

----------------------------------------------------------------------------
(* pd.to_numeric(column, errors='coerce'), line 42 *)

DigitValue == ("0" :> 0) @@ ("1" :> 1) @@ ("2" :> 2) @@ ("3" :> 3) @@ ("4" :> 4)
              @@ ("5" :> 5) @@ ("6" :> 6) @@ ("7" :> 7) @@ ("8" :> 8) @@ ("9" :> 9)

RECURSIVE ParseDigits(_)
ParseDigits(chars) ==
    IF chars = <<>> THEN 0
    ELSE 10 * ParseDigits(SubSeq(chars, 1, Len(chars) - 1))
         + DigitValue[chars[Len(chars)]]

ToNumeric(raw) ==
    IF raw.type = "number" THEN raw
    ELSE IF raw.type = "str"
            /\ raw.chars # <<>>
            /\ \A i \in 1..Len(raw.chars) : raw.chars[i] \in DOMAIN DigitValue
         THEN Num(ParseDigits(raw.chars))
         ELSE NaN

----------------------------------------------------------------------------
(* format_assessed_value, lines 11-31 *)

\* presence tested by truthiness, as in `if assessed:`
NotNaTruthy(v) == v.type = "number" /\ v.v # 0

\* pd.notna
NotNa(v) == v.type = "number"

Pad3(n) == IF n < 10 THEN "00" \o ToString(n)
           ELSE IF n < 100 THEN "0" \o ToString(n)
           ELSE ToString(n)

RECURSIVE Thousands(_)
Thousands(n) == IF n < 1000 THEN ToString(n)
                ELSE Thousands(n \div 1000) \o "," \o Pad3(n % 1000)

RECURSIVE Join(_, _)
Join(sep, lines) ==
    IF Len(lines) = 1 THEN lines[1]
    ELSE lines[1] \o sep \o Join(sep, Tail(lines))

format_assessed_value(row) ==
    LET assessed == row.assessed_value
        re_assessed == row.re_assessed_value
        nr_assessed == row.nr_assessed_value
        fl_assessed == row.fl_assessed_value
        l1 == IF NotNa(assessed)
              THEN <<"Assessed Value: $" \o Thousands(assessed.v)>> ELSE <<>>
        l2 == IF NotNa(re_assessed)
              THEN <<"Residential Assessed Value: $" \o Thousands(re_assessed.v)>>
              ELSE <<>>
        l3 == IF NotNa(nr_assessed)
              THEN <<"Non-Residential Assessed Value: $" \o Thousands(nr_assessed.v)>>
              ELSE <<>>
        l4 == IF NotNa(fl_assessed)
              THEN <<"Farm Land Assessed Value: $" \o Thousands(fl_assessed.v)>>
              ELSE <<>>
        formatted_values == l1 \o l2 \o l3 \o l4
    IN  IF formatted_values # <<>> THEN Join("<br>", formatted_values)
        ELSE "No assessed value information"

----------------------------------------------------------------------------
(* GeoDataFrame.to_crs(epsg=4326): raises on a frame without a reference   *)
(* system, otherwise rewrites every geometry's coordinates in the target   *)
(* system.                                                                 *)

ToCrsRaises(gdf) == gdf.crs = NoCrs

ToCrs(gdf, target) ==
    LET Reproject(row) == [row EXCEPT !.geometry.coords = target]
    IN  [gdf EXCEPT !.crs = target,
                    !.rows = [i \in 1..Len(gdf.rows) |-> Reproject(gdf.rows[i])]]

----------------------------------------------------------------------------
(* The remote resources *)

RawValues ==
    { None,
      Str(<<>>),
      Str(<<"N", "/", "A">>),
      Str(<<"0">>),
      Str(<<"9", "9", "9">>),
      Str(<<"5", "0", "0", "0", "0", "0">>),
      Str(<<"1", "0", "0", "5", "0", "0", "0">>) }

RawRow(a, re, nr, fl) ==
    [assessed_value |-> a, re_assessed_value |-> re,
     nr_assessed_value |-> nr, fl_assessed_value |-> fl]

PropertyFeature(code, name, shape, vals) ==
    [comm_code |-> code, comm_name |-> name,
     assessed_value |-> vals.assessed_value,
     re_assessed_value |-> vals.re_assessed_value,
     nr_assessed_value |-> vals.nr_assessed_value,
     fl_assessed_value |-> vals.fl_assessed_value,
     mod_date |-> [type |-> "datetime", iso |-> "2024-01-01"],
     geometry |-> shape]

PropertyFeatures ==
    { PropertyFeature("HIL", "HILLHURST", "parcel-1",
          RawRow(Str(<<"5", "0", "0", "0", "0", "0">>), None, None, None)),
      PropertyFeature("HIL", "HILLHURST/WEST", "parcel-2",
          RawRow(Str(<<"N", "/", "A">>), Str(<<"0">>), None, None)),
      PropertyFeature("BOW", "BOWNESS", "parcel-3",
          RawRow(None, None, None, None)),
      PropertyFeature("hil", "HILLHURST", "parcel-4",
          RawRow(Str(<<"9", "9", "9">>), None,
                 Str(<<"1", "0", "0", "5", "0", "0", "0">>), None)) }

CommunityFeature(name, code, shape) ==
    [name |-> name, comm_code |-> code,
     created_dt |-> [type |-> "datetime", iso |-> "2020-05-05"],
     modified_dt |-> [type |-> "datetime", iso |-> "2021-06-06"],
     geometry |-> shape]

CommunityFeatures ==
    { CommunityFeature("HILLHURST", "HIL", "area-1"),
      CommunityFeature("HILLHURST", "BOW", "area-2"),
      CommunityFeature("BOWNESS", "BOW", "area-3") }

SectorFeatures == << [sector |-> "CENTRE", geometry |-> "sector-1"] >>

\* gpd.read_file: the features in file order, geometries in the declared
\* system. A resource holds at least one feature: the columns the handlers
\* index (name, comm_code, comm_name) exist only then.
ReadFile(crs, features) ==
    LET Locate(f) == [f EXCEPT !.geometry = Geometry(f.geometry, crs)]
    IN  GeoDataFrame(crs, [i \in 1..Len(features) |-> Locate(features[i])])

PropertySources ==
    { ReadFile(crs, fs) : crs \in CrsValues, fs \in SeqsUpTo(PropertyFeatures, MaxProps) }

CommunitySources ==
    { ReadFile(crs, fs) : crs \in CrsValues, fs \in SeqsUpTo(CommunityFeatures, MaxComms) }

SectorSources == { ReadFile(crs, SectorFeatures) : crs \in CrsValues }

----------------------------------------------------------------------------
(* Module-level data loading, lines 34-65 *)

FallbackCenter == [lat |-> "51.0447", lon |-> "-114.0719"]

NoResponse == [route |-> "none"]

Init ==
    /\ pc = "read_properties"
    /\ properties_gdf = Unbound
    /\ communities_gdf = Unbound
    /\ sector_gdf = Unbound
    /\ calgary_center = Unbound
    /\ response = NoResponse

\* line 35
ReadProperties ==
    /\ pc = "read_properties"
    /\ properties_gdf' \in PropertySources
    /\ pc' = "read_communities"
    /\ UNCHANGED <<communities_gdf, sector_gdf, calgary_center, response>>

\* line 36
ReadCommunities ==
    /\ pc = "read_communities"
    /\ communities_gdf' \in CommunitySources
    /\ pc' = "read_sectors"
    /\ UNCHANGED <<properties_gdf, sector_gdf, calgary_center, response>>

\* line 37
ReadSectors ==
    /\ pc = "read_sectors"
    /\ sector_gdf' \in SectorSources
    /\ pc' = "preprocess_properties"
    /\ UNCHANGED <<properties_gdf, communities_gdf, calgary_center, response>>

\* lines 40-42
CoerceRow(row) ==
    [row EXCEPT !.assessed_value = ToNumeric(@),
                !.re_assessed_value = ToNumeric(@),
                !.nr_assessed_value = ToNumeric(@),
                !.fl_assessed_value = ToNumeric(@)]

\* line 43
WithSummary(row) ==
    [f \in DOMAIN row \cup {"formatted_assessed_values"} |->
        IF f = "formatted_assessed_values" THEN format_assessed_value(row)
        ELSE row[f]]

\* .astype(str) on a timestamp column
AsTypeStr(v) == IF v.type = "datetime" THEN Str(v.iso) ELSE v

\* lines 40-45, one row
PreprocessRow(row) ==
    [WithSummary(CoerceRow(row)) EXCEPT !.mod_date = AsTypeStr(@)]

\* lines 40-45
PreprocessProperties ==
    /\ pc = "preprocess_properties"
    /\ properties_gdf' =
         [properties_gdf EXCEPT !.rows =
            [i \in 1..Len(@) |-> PreprocessRow(@[i])]]
    /\ pc' = "preprocess_communities"
    /\ UNCHANGED <<communities_gdf, sector_gdf, calgary_center, response>>

\* lines 48-51
PreprocessCommunities ==
    /\ pc = "preprocess_communities"
    /\ communities_gdf' =
         [communities_gdf EXCEPT !.rows =
            [i \in 1..Len(communities_gdf.rows) |->
                [communities_gdf.rows[i] EXCEPT !.created_dt = AsTypeStr(@),
                                                !.modified_dt = AsTypeStr(@)]]]
    /\ pc' = "preprocess_sectors"
    /\ UNCHANGED <<properties_gdf, sector_gdf, calgary_center, response>>

\* lines 54-55
PreprocessSectors ==
    /\ pc = "preprocess_sectors"
    /\ sector_gdf' = IF sector_gdf.crs # NoCrs /\ sector_gdf.crs # WGS84
                     THEN ToCrs(sector_gdf, WGS84)
                     ELSE sector_gdf
    /\ pc' = "center"
    /\ UNCHANGED <<properties_gdf, communities_gdf, calgary_center, response>>

\* the centroid of one geometry, in the geometry's own coordinates
Centroid(g) == [centroid_of |-> g.shape, coords |-> g.coords]

\* the mean of the centroids of a frame's geometries, kept as the list of
\* centroids it is the mean of
CentroidMean(gdf) ==
    [mean_of |-> [i \in 1..Len(gdf.rows) |-> Centroid(gdf.rows[i].geometry)]]

\* line 58
ComputeCenter ==
    /\ pc = "center"
    /\ calgary_center' = CentroidMean(communities_gdf)
    /\ pc' = "serving"
    /\ UNCHANGED <<properties_gdf, communities_gdf, sector_gdf, response>>

LoadSteps == {"read_properties", "read_communities", "read_sectors",
              "preprocess_properties", "preprocess_communities",
              "preprocess_sectors", "center"}

\* a handler that resets only the names the try block had not bound yet
ExceptUnboundOnly ==
    /\ pc \in LoadSteps
    /\ properties_gdf' = IF properties_gdf = Unbound THEN None ELSE properties_gdf
    /\ communities_gdf' = IF communities_gdf = Unbound THEN None ELSE communities_gdf
    /\ sector_gdf' = IF sector_gdf = Unbound THEN None ELSE sector_gdf
    /\ calgary_center' = FallbackCenter
    /\ pc' = "serving"
    /\ UNCHANGED response

\* lines 60-65: a statement of the try block raises (network, parse or
\* projection error) and the handler runs
Except ==
    /\ pc \in LoadSteps
    /\ properties_gdf' = None
    /\ communities_gdf' = None
    /\ sector_gdf' = None
    /\ calgary_center' = FallbackCenter
    /\ pc' = "serving"
    /\ UNCHANGED response

Load ==
    \/ ReadProperties
    \/ ReadCommunities
    \/ ReadSectors
    \/ PreprocessProperties
    \/ PreprocessCommunities
    \/ PreprocessSectors
    \/ ComputeCenter
    \/ Except

----------------------------------------------------------------------------
(* Requests *)

NoMap == [type |-> "NoneType"]
NoForm == [has |-> FALSE, value |-> ""]

\* request.form of POST /map: the field may be missing, or hold any text
Forms == {NoForm} \cup {[has |-> TRUE, value |-> v] :
                            v \in {"", "HILLHURST", "hillhurst", "BOWNESS"}}

\* a view function's return value as Flask sends it
TextResponse(route, form, body, status) ==
    [route |-> route, form |-> form, status |-> status, body |-> body,
     template |-> "", community_name |-> "", community_names |-> <<>>,
     map |-> NoMap]

PageResponse(route, form, template, community_name, community_names, map) ==
    [route |-> route, form |-> form, status |-> 200, body |-> "",
     template |-> template, community_name |-> community_name,
     community_names |-> community_names, map |-> map]

\* an exception that leaves a view function
InternalServerError(route, form) ==
    TextResponse(route, form, "Internal Server Error", 500)

\* GeoDataFrame.to_json(): the rows as features, coordinates as they are
ToJson(gdf) == [crs |-> gdf.crs, features |-> gdf.rows]

Layer(name, data) == [name |-> name, data |-> data]

FoliumMap(location, layers) ==
    [type |-> "Map", location |-> location, layers |-> layers]

\* the model's display names in Python's string order
NameOrder == <<"BOWNESS", "HILLHURST", "hillhurst">>

\* sorted(column.unique().tolist())
SortedUnique(rows) ==
    SelectSeq(NameOrder, LAMBDA n : \E i \in 1..Len(rows) : rows[i].name = n)

\* lines 105-112
IndexResponse ==
    LET community_names == IF communities_gdf # None
                           THEN SortedUnique(communities_gdf.rows)
                           ELSE <<>>
    IN  PageResponse("/", NoForm, "index.html", "", community_names, NoMap)

Index ==
    /\ pc = "serving"
    /\ response' = IndexResponse
    /\ UNCHANGED <<pc, globals>>

\* lines 70-100
OverviewResponse ==
    IF communities_gdf = None \/ sector_gdf = None
    THEN TextResponse("/calgary_overview", NoForm, "Error: Data not loaded.", 500)
    ELSE LET calgary_map ==
                 FoliumMap(calgary_center,
                     << Layer("Community Boundaries", ToJson(communities_gdf)),
                        Layer("Community Sectors", ToJson(sector_gdf)) >>)
         IN  PageResponse("/calgary_overview", NoForm, "map.html",
                          "Calgary Overview", <<>>, calgary_map)

CalgaryOverview ==
    /\ pc = "serving"
    /\ response' = OverviewResponse
    /\ UNCHANGED <<pc, globals>>

\* str.upper on the model's names and codes
UpperCase == ("hillhurst" :> "HILLHURST") @@ ("hil" :> "HIL")

Upper(s) == IF s \in DOMAIN UpperCase THEN UpperCase[s] ELSE s

\* the name comparison made case-insensitive
BoundaryAnyCase(selected_community) ==
    [communities_gdf EXCEPT !.rows =
        SelectSeq(@, LAMBDA r : Upper(r.name) = Upper(selected_community))]

\* line 125: frame[mask].copy() keeps the rows the mask selects, in order,
\* in a new frame with the same reference system
Boundary(selected_community) ==
    [communities_gdf EXCEPT !.rows =
        SelectSeq(@, LAMBDA r : r.name = selected_community)]

\* line 134
FilterCode(community_boundary) == community_boundary.rows[1].comm_code

\* the code comparison made case-insensitive
CommunityPropertiesAnyCase(property_filter_code) ==
    [properties_gdf EXCEPT !.rows =
        SelectSeq(@, LAMBDA r : Upper(r.comm_code) = Upper(property_filter_code))]

\* lines 137-139
CommunityProperties(property_filter_code) ==
    [properties_gdf EXCEPT !.rows =
        SelectSeq(@, LAMBDA r : r.comm_code = property_filter_code)]

\* the display name taken from the boundary record, as line 146 does
LongCommNameOfBoundary(community_boundary, community_properties_gdf) ==
    community_boundary.rows[1].name

\* line 152
LongCommName(community_boundary, community_properties_gdf) ==
    community_properties_gdf.rows[1].comm_name

\* lines 157-200
ComposeDetail(form, boundary0, properties0, long_comm_name) ==
    IF ToCrsRaises(properties0) \/ ToCrsRaises(boundary0)
    THEN InternalServerError("/map", form)
    ELSE LET properties1 == ToCrs(properties0, WGS84)
             community_boundary == ToCrs(boundary0, WGS84)
             map_center == Centroid(community_boundary.rows[1].geometry)
             community_properties_gdf ==
                 IF properties1.crs # NoCrs /\ properties1.crs # WGS84
                 THEN ToCrs(properties1, WGS84)
                 ELSE properties1
             community_map ==
                 FoliumMap(map_center,
                     << Layer("Boundary: " \o long_comm_name,
                              ToJson(community_boundary)),
                        Layer(form.value \o " Properties",
                              ToJson(community_properties_gdf)) >>)
         IN  PageResponse("/map", form, "map.html", long_comm_name, <<>>,
                          community_map)

\* lines 115-200
ShowMapResponse(form) ==
    LET selected_community == form.value
    IN
    IF \/ ~form.has \/ selected_community = ""
       \/ properties_gdf = None \/ communities_gdf = None \/ sector_gdf = None
    THEN TextResponse("/map", form,
             "Error: Community not selected or data not loaded.", 400)
    ELSE
    LET community_boundary == Boundary(selected_community)
    IN
    IF community_boundary.rows = <<>>
    THEN TextResponse("/map", form,
             "No boundary data found for community: " \o selected_community, 404)
    ELSE
    LET property_filter_code == FilterCode(community_boundary)
        community_properties_gdf == CommunityProperties(property_filter_code)
    IN
    IF community_properties_gdf.rows = <<>>
    THEN TextResponse("/map", form,
             "No property data found for community: "
                 \o community_boundary.rows[1].name
                 \o " (Filter Code: " \o property_filter_code \o ").", 404)
    ELSE ComposeDetail(form, community_boundary, community_properties_gdf,
             LongCommName(community_boundary, community_properties_gdf))

\* show_map with the filter and the reprojection written back to the globals
ShowMapInPlace(form) ==
    /\ pc = "serving"
    /\ response' = ShowMapResponse(form)
    /\ properties_gdf' =
          IF response'.status = 200
          THEN ToCrs(CommunityProperties(FilterCode(Boundary(form.value))), WGS84)
          ELSE properties_gdf
    /\ UNCHANGED <<pc, communities_gdf, sector_gdf, calgary_center>>

ShowMap(form) ==
    /\ pc = "serving"
    /\ response' = ShowMapResponse(form)
    /\ UNCHANGED <<pc, globals>>

Serve ==
    \/ Index
    \/ CalgaryOverview
    \/ \E form \in Forms : ShowMap(form)

Next == Load \/ Serve

Spec == Init /\ [][Next]_vars

----------------------------------------------------------------------------
(* The per-row summary on its own: the state after the three reads, with   *)
(* one property feature whose four value fields range over RawValues.      *)

FormatSources ==
    { ReadFile(WGS84, << PropertyFeature("HIL", "HILLHURST", "parcel-1",
                                         RawRow(a, re, nr, fl)) >>) :
        a \in RawValues, re \in RawValues, nr \in RawValues, fl \in RawValues }

InitFormat ==
    /\ pc = "preprocess_properties"
    /\ properties_gdf \in FormatSources
    /\ communities_gdf =
          ReadFile(WGS84, << CommunityFeature("HILLHURST", "HIL", "area-1") >>)
    /\ sector_gdf = ReadFile(WGS84, SectorFeatures)
    /\ calgary_center = Unbound
    /\ response = NoResponse

NextFormat == PreprocessProperties

SpecFormat == InitFormat /\ [][NextFormat]_vars

----------------------------------------------------------------------------
(* Vocabulary of the properties *)

Loaded ==
    /\ pc = "serving"
    /\ IsFrame(properties_gdf) /\ IsFrame(communities_gdf) /\ IsFrame(sector_gdf)

Degraded ==
    /\ pc = "serving"
    /\ properties_gdf = None /\ communities_gdf = None /\ sector_gdf = None

\* the last request was a detail request carrying a non-empty selection
DetailRequested ==
    /\ response.route = "/map"
    /\ response.form.has
    /\ response.form.value # ""

MatchingBoundaries(sel) ==
    {i \in 1..Len(communities_gdf.rows) : communities_gdf.rows[i].name = sel}

\* the first boundary record, in dataset order, carrying the display name
FirstBoundary(sel) ==
    communities_gdf.rows[CHOOSE i \in MatchingBoundaries(sel) :
                            \A j \in MatchingBoundaries(sel) : i <= j]

PropertiesCoded(c) ==
    {i \in 1..Len(properties_gdf.rows) : properties_gdf.rows[i].comm_code = c}

BoundaryLayer == response.map.layers[1].data
PropertyLayer == response.map.layers[2].data

UnavailableBody == "Error: Community not selected or data not loaded."

----------------------------------------------------------------------------
(* C1: a detail request that resolves to a boundary with community code c  *)
(* hands the map exactly the property records whose comm_code equals c:    *)
(* every record of the subset carries c, every record carrying c is in the *)
(* subset once, and the no-properties result means no record carries c.    *)
C1_ExactCodeFilter ==
    (Loaded /\ DetailRequested /\ MatchingBoundaries(response.form.value) # {}) =>
        LET c == FirstBoundary(response.form.value).comm_code
            feats == PropertyLayer.features
        IN  /\ response.status = 200 =>
                /\ Len(feats) = Cardinality(PropertiesCoded(c))
                /\ \A k \in 1..Len(feats) : feats[k].comm_code = c
                /\ \A i \in PropertiesCoded(c) : \E k \in 1..Len(feats) :
                       feats[k].geometry.shape = properties_gdf.rows[i].geometry.shape
            /\ response.status = 404 => PropertiesCoded(c) = {}
            /\ response.status \in {200, 404, 500}

C1_Witness ==
    /\ Loaded /\ DetailRequested /\ response.status = 200
    /\ response.form.value = "HILLHURST"
    /\ \E i \in 1..Len(properties_gdf.rows) : properties_gdf.rows[i].comm_code = "hil"
    /\ Len(PropertyLayer.features) = 1
    /\ PropertyLayer.features[1].comm_code = "HIL"

(* C2: once the startup load is over, the three references are all loaded  *)
(* frames, or all None with the fallback display center.                   *)
C2_AllOrNothing ==
    pc = "serving" =>
        \/ IsFrame(properties_gdf) /\ IsFrame(communities_gdf) /\ IsFrame(sector_gdf)
        \/ /\ properties_gdf = None /\ communities_gdf = None /\ sector_gdf = None
           /\ calgary_center = FallbackCenter

C2_Witness == Degraded /\ calgary_center = FallbackCenter /\ response # NoResponse

(* C3: after a failed load every request reports an unavailable-data error *)
(* and never a successful page or map.                                     *)
C3_DegradedAlwaysReported ==
    (Degraded /\ response # NoResponse) =>
        /\ response.status \in {400, 500}
        /\ response.template = ""

(* C4: a non-empty selection naming no boundary record gives the not-found *)
(* result, with no map, and that result differs from the one returned when *)
(* data is unavailable.                                                    *)
C4_CommunityNotFound ==
    (Loaded /\ DetailRequested /\ MatchingBoundaries(response.form.value) = {}) =>
        /\ response.status = 404
        /\ response.body = "No boundary data found for community: "
                              \o response.form.value
        /\ response.map = NoMap
        /\ response.template = ""
        /\ response.status # 400
        /\ response.body # UnavailableBody

C4_Witness ==
    /\ Loaded /\ DetailRequested
    /\ response.form.value = "hillhurst"
    /\ MatchingBoundaries("HILLHURST") # {}
    /\ response.status = 404

(* C5: a selection matching a boundary whose code no property carries      *)
(* gives a result without a map whose condition code differs from the code *)
(* of the result for a selection that matches no boundary.                 *)
C5_DistinctConditionCode ==
    (Loaded /\ DetailRequested
        /\ MatchingBoundaries(response.form.value) # {}
        /\ PropertiesCoded(FirstBoundary(response.form.value).comm_code) = {}) =>
        /\ response.map = NoMap
        /\ \A f \in Forms :
              (f.has /\ f.value # "" /\ MatchingBoundaries(f.value) = {}) =>
                  response.status # ShowMapResponse(f).status

----------------------------------------------------------------------------
(* What the summary of a raw row has to be, written from the raw text *)

ExpectedAmount ==
    (<<"0">> :> "0")
    @@ (<<"9", "9", "9">> :> "999")
    @@ (<<"5", "0", "0", "0", "0", "0">> :> "500,000")
    @@ (<<"1", "0", "0", "5", "0", "0", "0">> :> "1,005,000")

Labels == <<"Assessed Value", "Residential Assessed Value",
            "Non-Residential Assessed Value", "Farm Land Assessed Value">>

IsPresent(raw) == raw.type = "str" /\ raw.chars \in DOMAIN ExpectedAmount

PresentColumns(row) == {k \in 1..4 : IsPresent(row[ValueColumns[k]])}

RECURSIVE ExpectedFrom(_, _)
ExpectedFrom(row, k) ==
    IF k > 4 THEN ""
    ELSE IF k \notin PresentColumns(row) THEN ExpectedFrom(row, k + 1)
    ELSE Labels[k] \o ": $" \o ExpectedAmount[row[ValueColumns[k]].chars]
         \o (IF \E j \in PresentColumns(row) : j > k THEN "<br>" ELSE "")
         \o ExpectedFrom(row, k + 1)

ExpectedSummary(row) ==
    IF PresentColumns(row) = {} THEN "No assessed value information"
    ELSE ExpectedFrom(row, 1)

\* the row with every value that is not a number replaced by a missing one
WithAbsent(row) ==
    [f \in DOMAIN row |->
        IF (\E k \in 1..4 : ValueColumns[k] = f) /\ ~IsPresent(row[f])
        THEN None ELSE row[f]]

(* C6: the pre-processing step gives every property record the summary     *)
(* that lists its present value fields, and only those, in the fixed order *)
(* overall, residential, non-residential, farm-land, each as               *)
(* '<Label>: $<amount with thousands separators>', joined by '<br>', or    *)
(* 'No assessed value information' when none is present; text that is not  *)
(* a number counts as absent, zero counts as present.                      *)
C6_SummaryOfPresentFields ==
    [][(pc = "preprocess_properties" /\ pc' = "preprocess_communities") =>
          /\ Len(properties_gdf'.rows) = Len(properties_gdf.rows)
          /\ \A i \in 1..Len(properties_gdf.rows) :
                LET raw == properties_gdf.rows[i]
                    summary == properties_gdf'.rows[i].formatted_assessed_values
                IN  /\ summary = ExpectedSummary(raw)
                    /\ summary = format_assessed_value(CoerceRow(WithAbsent(raw)))
                    /\ (IsPresent(raw.assessed_value)
                          /\ raw.assessed_value.chars = <<"0">>
                          /\ PresentColumns(raw) = {1})
                       => summary = "Assessed Value: $0"]_vars

C6_Witness ==
    /\ pc = "preprocess_communities"
    /\ properties_gdf.rows[1].formatted_assessed_values =
          "Residential Assessed Value: $0<br>Farm Land Assessed Value: $1,005,000"

(* C7: on a successful detail request the boundary handed to the map is    *)
(* the single first record carrying the selected name, and the properties  *)
(* handed to the map carry that same record's code.                        *)
C7_SingleBoundaryRecord ==
    (Loaded /\ DetailRequested /\ response.status = 200) =>
        LET first == FirstBoundary(response.form.value)
        IN  /\ Len(BoundaryLayer.features) = 1
            /\ BoundaryLayer.features[1].geometry.shape = first.geometry.shape
            /\ BoundaryLayer.features[1].comm_code = first.comm_code
            /\ \A k \in 1..Len(PropertyLayer.features) :
                   PropertyLayer.features[k].comm_code = first.comm_code

(* C8: on a successful detail request the display name given to the        *)
(* template is the comm_name of the first record, in dataset order, of the *)
(* property subset, whatever the boundary record's name is.                *)
C8_DisplayNameFromProperties ==
    (Loaded /\ DetailRequested /\ response.status = 200) =>
        LET c == FirstBoundary(response.form.value).comm_code
            first == CHOOSE i \in PropertiesCoded(c) :
                         \A j \in PropertiesCoded(c) : i <= j
        IN  /\ response.template = "map.html"
            /\ response.community_name = properties_gdf.rows[first].comm_name
            /\ response.community_name = PropertyLayer.features[1].comm_name

C8_Witness ==
    /\ Loaded /\ DetailRequested /\ response.status = 200
    /\ response.community_name # response.form.value
    /\ Len(PropertyLayer.features) = 2
    /\ PropertyLayer.features[2].comm_name # response.community_name

\* the last request produced a map
MapServed ==
    /\ response.route \in {"/calgary_overview", "/map"}
    /\ response.status = 200

(* C9: after a successful load every collection a request hands to the map *)
(* is in EPSG:4326, coordinates included.                                  *)
C9_RenderedInWGS84 ==
    (Loaded /\ MapServed) =>
        \A l \in 1..Len(response.map.layers) :
            LET data == response.map.layers[l].data
            IN  /\ data.crs = WGS84
                /\ \A k \in 1..Len(data.features) :
                       data.features[k].geometry.coords = WGS84

(* C10: once the load is over no request changes properties_gdf,           *)
(* communities_gdf, sector_gdf or calgary_center.                          *)
C10_DatasetsReadOnly ==
    [][pc = "serving" =>
          /\ properties_gdf' = properties_gdf
          /\ communities_gdf' = communities_gdf
          /\ sector_gdf' = sector_gdf
          /\ calgary_center' = calgary_center]_vars

C10_Witness ==
    /\ Loaded /\ DetailRequested /\ response.status = 200
    /\ properties_gdf.crs = WebMercator
    /\ PropertyLayer.crs = WGS84
    /\ Len(PropertyLayer.features) < Len(properties_gdf.rows)

====
